---------------------------- MODULE Spec2Model ----------------------------
(* A model of ContactModel (src/ContactModel.cpp, src/ContactModel.h): the *)
(* QAbstractListModel adapter over QVector<Contact> m_contacts, its three  *)
(* queries (rowCount, data, roleNames), its three mutations (addContact,   *)
(* removeContact, clear) and the notifications each mutation delivers.     *)
(* Every notification is delivered synchronously, so a mutation is a run   *)
(* of steps of one call frame; observers query the model while a           *)
(* notification is being delivered or while no call is active.             *)
EXTENDS Integers, Sequences, FiniteSets, TLC

VARIABLES
    m_contacts,  \* QVector<Contact> m_contacts (position p is m_contacts[p+1])
    stack,       \* the active calls of the model's mutations, innermost last
    trace,       \* the notifications delivered since the outermost active
                 \* call began, each with m_contacts as the observers saw
                 \* it at delivery; empty between calls
    result,      \* what the query serviced by the last step returned, with
                 \* its arguments; NoResult when the last step was no query
    written,     \* history: the records as they were handed to addContact,
                 \* placed by the completed notifications alone (a row
                 \* added at end-insert, dropped at end-remove, all dropped
                 \* at end-reset)
    view,        \* the observers' own state: the ListView's rows (mirror)
                 \* and the value of the count binding (count)
    scenario,    \* history: how many calls of the end-to-end scenario have
                 \* been made, when the calls since construction are
                 \* exactly its first ones; -1 otherwise
    todo,        \* the ToDoModel: its tasks and what its last query returned
    callbacks,   \* history: the number of calls made from notification
                 \* handlers since construction
    ui           \* the QML window of ContactModel.h: the texts of nameField,
                 \* phoneField and emailField, the handler that is running,
                 \* its position and the calls it has still to make

vars == <<m_contacts, stack, trace, result, written, view, scenario, todo,
          callbacks, ui>>

----------------------------------------------------------------------------
(* Bounds of the model *)

MaxLen == 3      \* addContact is not called on a Sequence of MaxLen records
MaxDepth == 2    \* a handler calls back into the model while fewer than
                 \* MaxDepth calls are active
MaxCallBacks == 1 \* and while fewer than MaxCallBacks such calls were made
MaxTasks == 3     \* the ToDoModel holds at most MaxTasks tasks

----------------------------------------------------------------------------
(* Records and roles *)

\* The records handed to addContact: the two of the end-to-end scenario,
\* one with every field empty, one with a whitespace-only name.
Contacts ==
    { [name |-> "Alice", phone |-> "555-1234", email |-> "alice@example.com"],
      [name |-> "Bob",   phone |-> "555-5678", email |-> "bob@example.com"],
      [name |-> "",      phone |-> "",         email |-> ""],
      [name |-> "  ",    phone |-> "555-1234", email |-> ""] }

UserRole == 256                \* Qt::UserRole, 0x0100
NameRole == UserRole + 1
PhoneRole == NameRole + 1
EmailRole == PhoneRole + 1

\* The roles queried: the declared ones, the one below (Qt::UserRole) and
\* the one above.
QueriedRoles == {UserRole, NameRole, PhoneRole, EmailRole, EmailRole + 1}

\* The rows queried and the indexes handed to removeContact.
Rows == (0 - 1) .. MaxLen

\* QVariant: the invalid QVariant() and a QVariant holding a string are
\* different values, also when the string is empty.
QVariantInvalid == [valid |-> FALSE, value |-> ""]
QVariantOf(s) == [valid |-> TRUE, value |-> s]

\* QModelIndex::isValid for the index of a row of this model (column 0):
\* the default-constructed QModelIndex() has row -1.
isValid(row) == row >= 0

----------------------------------------------------------------------------
(* Queries *)

\* Bug: a row out of range yields an empty string, not the invalid QVariant
data_EmptyString(row, role) ==
    IF ~isValid(row) \/ row >= Len(m_contacts)
    THEN QVariantOf("")
    ELSE LET contact == m_contacts[row + 1]
         IN  CASE role = NameRole  -> QVariantOf(contact.name)
               [] role = PhoneRole -> QVariantOf(contact.phone)
               [] role = EmailRole -> QVariantOf(contact.email)
               [] OTHER            -> QVariantInvalid

\* Bug: the switch counts the roles from Qt::UserRole, not Qt::UserRole + 1
data_RolesFromUserRole(row, role) ==
    IF ~isValid(row) \/ row >= Len(m_contacts)
    THEN QVariantInvalid
    ELSE LET contact == m_contacts[row + 1]
         IN  CASE role = UserRole     -> QVariantOf(contact.name)
               [] role = UserRole + 1 -> QVariantOf(contact.phone)
               [] role = UserRole + 2 -> QVariantOf(contact.email)
               [] OTHER               -> QVariantInvalid

\* Bug: EmailRole returns the phone
data_PhoneForEmail(row, role) ==
    IF ~isValid(row) \/ row >= Len(m_contacts)
    THEN QVariantInvalid
    ELSE LET contact == m_contacts[row + 1]
         IN  CASE role = NameRole  -> QVariantOf(contact.name)
               [] role = PhoneRole -> QVariantOf(contact.phone)
               [] role = EmailRole -> QVariantOf(contact.phone)
               [] OTHER            -> QVariantInvalid

rowCount(parentValid) ==
    IF parentValid THEN 0 ELSE Len(m_contacts)

data(row, role) ==
    IF ~isValid(row) \/ row >= Len(m_contacts)
    THEN QVariantInvalid
    ELSE LET contact == m_contacts[row + 1]
         IN  CASE role = NameRole  -> QVariantOf(contact.name)
               [] role = PhoneRole -> QVariantOf(contact.phone)
               [] role = EmailRole -> QVariantOf(contact.email)
               [] OTHER            -> QVariantInvalid

\* Bug: the table is filled only while the model holds contacts
roleNames_WhenFilled ==
    IF m_contacts = <<>>
    THEN (NameRole :> "name")
    ELSE (NameRole :> "name") @@ (PhoneRole :> "phone") @@ (EmailRole :> "email")

\* Bug: the entry of EmailRole is left out
roleNames_NoEmail ==
    (NameRole :> "name") @@ (PhoneRole :> "phone")

roleNames ==
    (NameRole :> "name") @@ (PhoneRole :> "phone") @@ (EmailRole :> "email")

----------------------------------------------------------------------------
(* ToDoModel *)

DoneRole == UserRole
DescriptionRole == DoneRole + 1

Tasks ==
    { [done |-> TRUE,  description |-> "Washes the car"],
      [done |-> FALSE, description |-> "Do the dishes"],
      [done |-> TRUE,  description |-> "Fix the sink"] }

TaskLists == UNION { [1 .. n -> Tasks] : n \in 0 .. MaxTasks }

ToDoRows == (0 - 1) .. MaxTasks
ToDoQueriedRoles == {DoneRole - 1, DoneRole, DescriptionRole, DescriptionRole + 1}

\* Bug: the roles are numbered from Qt::UserRole + 1
ToDoModel_roleNames_Shifted ==
    ((DoneRole + 1) :> "done") @@ ((DescriptionRole + 1) :> "description")

ToDoModel_roleNames ==
    (DoneRole :> "done") @@ (DescriptionRole :> "description")

\* ToDoModel::rowCount and the data() the delegates read are not in the
\* sources at hand; they follow the list adapter contract of the
\* specification (length, fieldValue).
ToDoModel_rowCount == Len(todo.m_tasks)

ToDoModel_data(row, role) ==
    IF row < 0 \/ row >= Len(todo.m_tasks)
    THEN QVariantInvalid
    ELSE LET task == todo.m_tasks[row + 1]
         IN  CASE role = DoneRole        -> [valid |-> TRUE, value |-> task.done]
               [] role = DescriptionRole -> QVariantOf(task.description)
               [] OTHER                  -> QVariantInvalid

----------------------------------------------------------------------------
(* QVector operations *)

\* Bug: the element after i is removed
removeAt_OffByOne(s, i) == SubSeq(s, 1, i + 1) \o SubSeq(s, i + 3, Len(s))

\* Bug: the last element takes the place of element i
removeAt_SwapLast(s, i) ==
    [k \in 1 .. (Len(s) - 1) |-> IF k = i + 1 THEN s[Len(s)] ELSE s[k]]

\* QVector::removeAt(i), 0 <= i < size
removeAt(s, i) == SubSeq(s, 1, i) \o SubSeq(s, i + 2, Len(s))

----------------------------------------------------------------------------
(* Call frames and notifications *)

NoContact == [name |-> "", phone |-> "", email |-> ""]

Frame(op, pc, contact, index, row, pre) ==
    [op |-> op, pc |-> pc, contact |-> contact, index |-> index,
     newRow |-> row, pre |-> pre]

Top == stack[Len(stack)]

SetPc(pc) == [stack EXCEPT ![Len(stack)].pc = pc]

Event(ev, first, last) ==
    [ev |-> ev, first |-> first, last |-> last, seq |-> m_contacts]

\* The notifications of a call extend the trace of the outermost call; a call
\* made while no call is active starts a new trace.
Since(events) == IF stack = <<>> THEN events ELSE trace \o events

\* Observers run while a notification is delivered and between calls.
DeliveringPcs ==
    {"beginInsertRows", "endInsertRows", "beginRemoveRows", "endRemoveRows",
     "beginResetModel", "endResetModel", "countChanged"}

\* Handlers run at every step of a call, also between the notifications
Delivering_AnyStep == stack # <<>>

Delivering == stack # <<>> /\ Top.pc \in DeliveringPcs

Idle == stack = <<>>

\* The rows of s without row i (0-based), the later rows one position down.
DropRow(s, i) ==
    [k \in 1 .. (Len(s) - 1) |-> IF k <= i THEN s[k] ELSE s[k + 1]]

NoResult == [op |-> "none", row |-> 0, role |-> 0, value |-> QVariantInvalid]

----------------------------------------------------------------------------
(* The observers of this repository: the ListView bound to the model and the *)
(* text bound to its count property (the QML of ContactModel.h)              *)

\* The row the ListView's delegate shows for row p: model.name, model.phone,
\* model.email, each read through data()
ReadRow(p) ==
    [name |-> data(p, NameRole), phone |-> data(p, PhoneRole),
     email |-> data(p, EmailRole)]

\* After a reset the ListView asks rowCount() and reads every row again
ReadAll == [k \in 1 .. rowCount(FALSE) |-> ReadRow(k - 1)]

\* The rows s with row r put at position n (0-based), the later rows one
\* position up
InsertRow(s, n, r) ==
    IF n >= Len(s)
    THEN Append(s, r)
    ELSE SubSeq(s, 1, n) \o <<r>> \o SubSeq(s, n + 1, Len(s))

----------------------------------------------------------------------------
(* The end-to-end scenario of the specification, as a history of the calls *)

Call(op, contact, index) == [op |-> op, contact |-> contact, index |-> index]

Scenario ==
    << Call("addContact",
            [name |-> "Alice", phone |-> "555-1234", email |-> "alice@example.com"],
            0 - 1),
       Call("addContact",
            [name |-> "Bob", phone |-> "555-5678", email |-> "bob@example.com"],
            0 - 1),
       Call("removeContact", NoContact, 0),
       Call("clear", NoContact, 0 - 1) >>

ScenarioAfter(call) ==
    IF scenario >= 0 /\ scenario < Len(Scenario) /\ Scenario[scenario + 1] = call
    THEN scenario + 1
    ELSE 0 - 1

\* No window: the model is used from C++ alone
NoWindow ==
    [handler |-> "", pc |-> "idle", pending |-> <<>>,
     nameField |-> "", phoneField |-> "", emailField |-> ""]

----------------------------------------------------------------------------
(* Initial state: the constructor leaves m_contacts empty *)

Init ==
    /\ m_contacts = <<>>
    /\ stack = <<>>
    /\ trace = <<>>
    /\ result = NoResult
    /\ written = <<>>
    /\ view = [mirror |-> <<>>, count |-> 0]
    /\ scenario = 0
    /\ todo = [m_tasks |-> <<>>, result |-> NoResult]
    /\ callbacks = 0
    /\ ui = NoWindow

----------------------------------------------------------------------------
(* addContact, ContactModel.cpp 145-178 *)

\* Bug: the record is appended before beginInsertRows announces it
AddContactBegin_DataFirst(c) ==
    LET newRow == Len(m_contacts)
    IN  /\ m_contacts' = Append(m_contacts, c)
        /\ trace' = Since(<<[ev |-> "beginInsertRows", first |-> newRow,
                             last |-> newRow, seq |-> m_contacts']>>)
        /\ stack' = Append(stack,
                Frame("addContact", "beginInsertRows", c, 0 - 1, newRow, m_contacts))
        /\ UNCHANGED written
        /\ result' = NoResult
        /\ UNCHANGED <<view, todo>>

\* Bug: the announced row is the last existing one, count() - 1
AddContactBegin_RowOffByOne(c) ==
    LET newRow == Len(m_contacts) - 1
    IN  /\ trace' = Since(<<Event("beginInsertRows", newRow, newRow)>>)
        /\ stack' = Append(stack,
                Frame("addContact", "beginInsertRows", c, 0 - 1, newRow, m_contacts))
        /\ UNCHANGED <<m_contacts, written>>
        /\ result' = NoResult
        /\ UNCHANGED <<view, todo>>

\* lines 152-158: newRow = m_contacts.count(); beginInsertRows(.., newRow, newRow)
AddContactBegin(c) ==
    LET newRow == Len(m_contacts)
    IN  /\ trace' = Since(<<Event("beginInsertRows", newRow, newRow)>>)
        /\ stack' = Append(stack,
                Frame("addContact", "beginInsertRows", c, 0 - 1, newRow, m_contacts))
        /\ UNCHANGED <<m_contacts, written>>
        /\ result' = NoResult
        /\ UNCHANGED <<view, todo>>

AddContact(c) ==
    /\ Idle
    /\ Len(m_contacts) < MaxLen
    /\ AddContactBegin(c)
    /\ scenario' = ScenarioAfter(Call("addContact", c, 0 - 1))
    /\ UNCHANGED <<callbacks, ui>>

\* Bug: phone and email are stored in each other's field
AddContactAppend_SwapFields ==
    /\ stack # <<>>
    /\ Top.op = "addContact"
    /\ Top.pc = "beginInsertRows"
    /\ LET newContact == [name |-> Top.contact.name,
                          phone |-> Top.contact.email,
                          email |-> Top.contact.phone]
       IN  m_contacts' = Append(m_contacts, newContact)
    /\ stack' = SetPc("append")
    /\ UNCHANGED <<trace, written>>
    /\ result' = NoResult
    /\ UNCHANGED <<view, scenario, todo, callbacks, ui>>

\* Bug: the record is put in front, not at the announced row
AddContactAppend_Prepend ==
    /\ stack # <<>>
    /\ Top.op = "addContact"
    /\ Top.pc = "beginInsertRows"
    /\ LET newContact == [name |-> Top.contact.name,
                          phone |-> Top.contact.phone,
                          email |-> Top.contact.email]
       IN  m_contacts' = <<newContact>> \o m_contacts
    /\ stack' = SetPc("append")
    /\ UNCHANGED <<trace, written>>
    /\ result' = NoResult
    /\ UNCHANGED <<view, scenario, todo, callbacks, ui>>

\* lines 162-166: m_contacts.append(newContact)
AddContactAppend ==
    /\ stack # <<>>
    /\ Top.op = "addContact"
    /\ Top.pc = "beginInsertRows"
    /\ LET newContact == [name |-> Top.contact.name,
                          phone |-> Top.contact.phone,
                          email |-> Top.contact.email]
       IN  m_contacts' = Append(m_contacts, newContact)
    /\ stack' = SetPc("append")
    /\ UNCHANGED <<trace, written>>
    /\ result' = NoResult
    /\ UNCHANGED <<view, scenario, todo, callbacks, ui>>

\* line 173: endInsertRows() reports the range its beginInsertRows announced
AddContactEnd ==
    /\ stack # <<>>
    /\ Top.op = "addContact"
    /\ Top.pc = "append"
    /\ trace' = Append(trace, Event("endInsertRows", Top.newRow, Top.newRow))
    /\ stack' = SetPc("endInsertRows")
    /\ UNCHANGED m_contacts
    /\ written' = Append(written, Top.contact)
    /\ result' = NoResult
    /\ view' = [view EXCEPT !.mirror = InsertRow(@, Top.newRow, ReadRow(Top.newRow))]
    /\ UNCHANGED <<scenario, todo, callbacks, ui>>

\* line 177: emit countChanged()
AddContactCountChanged ==
    /\ stack # <<>>
    /\ Top.op = "addContact"
    /\ Top.pc = "endInsertRows"
    /\ trace' = Append(trace, Event("countChanged", 0 - 1, 0 - 1))
    /\ stack' = SetPc("countChanged")
    /\ UNCHANGED <<m_contacts, written>>
    /\ result' = NoResult
    /\ view' = [view EXCEPT !.count = rowCount(FALSE)]
    /\ UNCHANGED <<scenario, todo, callbacks, ui>>

----------------------------------------------------------------------------
(* removeContact, ContactModel.cpp 198-222 *)

\* Bug: the range check lets index == count() through
RemoveContactBegin_LooseCheck(index) ==
    IF index < 0 \/ index > Len(m_contacts)
    THEN /\ trace' = Since(<<>>)
         /\ stack' = Append(stack,
                Frame("removeContact", "return", NoContact, index, 0 - 1, m_contacts))
         /\ UNCHANGED <<m_contacts, written>>
         /\ result' = NoResult
         /\ UNCHANGED <<view, todo>>
    ELSE /\ trace' = Since(<<Event("beginRemoveRows", index, index)>>)
         /\ stack' = Append(stack,
                Frame("removeContact", "beginRemoveRows", NoContact, index, 0 - 1,
                      m_contacts))
         /\ UNCHANGED <<m_contacts, written>>
         /\ result' = NoResult
         /\ UNCHANGED <<view, todo>>

\* lines 203-208: the range check, then beginRemoveRows(.., index, index)
RemoveContactBegin(index) ==
    IF index < 0 \/ index >= Len(m_contacts)
    THEN /\ trace' = Since(<<>>)
         /\ stack' = Append(stack,
                Frame("removeContact", "return", NoContact, index, 0 - 1, m_contacts))
         /\ UNCHANGED <<m_contacts, written>>
         /\ result' = NoResult
         /\ UNCHANGED <<view, todo>>
    ELSE /\ trace' = Since(<<Event("beginRemoveRows", index, index)>>)
         /\ stack' = Append(stack,
                Frame("removeContact", "beginRemoveRows", NoContact, index, 0 - 1,
                      m_contacts))
         /\ UNCHANGED <<m_contacts, written>>
         /\ result' = NoResult
         /\ UNCHANGED <<view, todo>>

RemoveContact(index) ==
    /\ Idle
    /\ RemoveContactBegin(index)
    /\ scenario' = ScenarioAfter(Call("removeContact", NoContact, index))
    /\ UNCHANGED <<callbacks, ui>>

\* Bug: the last record is removed, whatever the index
RemoveContactRemoveAt_Last ==
    /\ stack # <<>>
    /\ Top.op = "removeContact"
    /\ Top.pc = "beginRemoveRows"
    /\ m_contacts' = SubSeq(m_contacts, 1, Len(m_contacts) - 1)
    /\ stack' = SetPc("removeAt")
    /\ UNCHANGED <<trace, written>>
    /\ result' = NoResult
    /\ UNCHANGED <<view, scenario, todo, callbacks, ui>>

\* line 211: m_contacts.removeAt(index)
RemoveContactRemoveAt ==
    /\ stack # <<>>
    /\ Top.op = "removeContact"
    /\ Top.pc = "beginRemoveRows"
    /\ Top.index < Len(m_contacts)
    /\ m_contacts' = removeAt(m_contacts, Top.index)
    /\ stack' = SetPc("removeAt")
    /\ UNCHANGED <<trace, written>>
    /\ result' = NoResult
    /\ UNCHANGED <<view, scenario, todo, callbacks, ui>>

\* Bug: endRemoveRows() is never called
RemoveContactEnd_NoNotification ==
    /\ stack # <<>>
    /\ Top.op = "removeContact"
    /\ Top.pc = "removeAt"
    /\ trace' = trace
    /\ stack' = SetPc("endRemoveRows")
    /\ UNCHANGED m_contacts
    /\ written' = DropRow(written, Top.index)
    /\ result' = NoResult
    /\ view' = [view EXCEPT !.mirror = DropRow(@, Top.index)]
    /\ UNCHANGED <<scenario, todo, callbacks, ui>>

\* line 218: endRemoveRows() reports the range its beginRemoveRows announced
RemoveContactEnd ==
    /\ stack # <<>>
    /\ Top.op = "removeContact"
    /\ Top.pc = "removeAt"
    /\ trace' = Append(trace, Event("endRemoveRows", Top.index, Top.index))
    /\ stack' = SetPc("endRemoveRows")
    /\ UNCHANGED m_contacts
    /\ written' = DropRow(written, Top.index)
    /\ result' = NoResult
    /\ view' = [view EXCEPT !.mirror = DropRow(@, Top.index)]
    /\ UNCHANGED <<scenario, todo, callbacks, ui>>

\* line 221: emit countChanged()
RemoveContactCountChanged ==
    /\ stack # <<>>
    /\ Top.op = "removeContact"
    /\ Top.pc = "endRemoveRows"
    /\ trace' = Append(trace, Event("countChanged", 0 - 1, 0 - 1))
    /\ stack' = SetPc("countChanged")
    /\ UNCHANGED <<m_contacts, written>>
    /\ result' = NoResult
    /\ view' = [view EXCEPT !.count = rowCount(FALSE)]
    /\ UNCHANGED <<scenario, todo, callbacks, ui>>

----------------------------------------------------------------------------
(* clear, ContactModel.cpp 240-257 *)

\* Bug: the rows are announced as removed, 0 .. count() - 1, not as a reset
ClearBegin_RemoveRows ==
    IF m_contacts = <<>>
    THEN /\ trace' = Since(<<>>)
         /\ stack' = Append(stack,
                Frame("clear", "return", NoContact, 0 - 1, 0 - 1, m_contacts))
         /\ UNCHANGED <<m_contacts, written>>
         /\ result' = NoResult
         /\ UNCHANGED <<view, todo>>
    ELSE /\ trace' = Since(<<Event("beginRemoveRows", 0, Len(m_contacts) - 1)>>)
         /\ stack' = Append(stack,
                Frame("clear", "beginResetModel", NoContact, 0 - 1, 0 - 1, m_contacts))
         /\ UNCHANGED <<m_contacts, written>>
         /\ result' = NoResult
         /\ UNCHANGED <<view, todo>>

\* Bug: no early return, an empty vector is reset as well
ClearBegin_NoEarlyReturn ==
    /\ trace' = Since(<<Event("beginResetModel", 0 - 1, 0 - 1)>>)
    /\ stack' = Append(stack,
           Frame("clear", "beginResetModel", NoContact, 0 - 1, 0 - 1, m_contacts))
    /\ UNCHANGED <<m_contacts, written>>
    /\ result' = NoResult
    /\ UNCHANGED <<view, todo>>

\* lines 243-247: the early return on an empty vector, then beginResetModel()
ClearBegin ==
    IF m_contacts = <<>>
    THEN /\ trace' = Since(<<>>)
         /\ stack' = Append(stack,
                Frame("clear", "return", NoContact, 0 - 1, 0 - 1, m_contacts))
         /\ UNCHANGED <<m_contacts, written>>
         /\ result' = NoResult
         /\ UNCHANGED <<view, todo>>
    ELSE /\ trace' = Since(<<Event("beginResetModel", 0 - 1, 0 - 1)>>)
         /\ stack' = Append(stack,
                Frame("clear", "beginResetModel", NoContact, 0 - 1, 0 - 1, m_contacts))
         /\ UNCHANGED <<m_contacts, written>>
         /\ result' = NoResult
         /\ UNCHANGED <<view, todo>>

Clear ==
    /\ Idle
    /\ ClearBegin
    /\ scenario' = ScenarioAfter(Call("clear", NoContact, 0 - 1))
    /\ UNCHANGED <<callbacks, ui>>

\* line 250: m_contacts.clear()
ClearClear ==
    /\ stack # <<>>
    /\ Top.op = "clear"
    /\ Top.pc = "beginResetModel"
    /\ m_contacts' = <<>>
    /\ stack' = SetPc("clear")
    /\ UNCHANGED <<trace, written>>
    /\ result' = NoResult
    /\ UNCHANGED <<view, scenario, todo, callbacks, ui>>

\* line 253: endResetModel()
ClearEnd ==
    /\ stack # <<>>
    /\ Top.op = "clear"
    /\ Top.pc = "clear"
    /\ trace' = Append(trace, Event("endResetModel", 0 - 1, 0 - 1))
    /\ stack' = SetPc("endResetModel")
    /\ UNCHANGED m_contacts
    /\ written' = <<>>
    /\ result' = NoResult
    /\ view' = [view EXCEPT !.mirror = ReadAll]
    /\ UNCHANGED <<scenario, todo, callbacks, ui>>

\* Bug: clear() does not emit countChanged()
ClearCountChanged_Silent ==
    /\ stack # <<>>
    /\ Top.op = "clear"
    /\ Top.pc = "endResetModel"
    /\ trace' = trace
    /\ stack' = SetPc("countChanged")
    /\ UNCHANGED <<m_contacts, written>>
    /\ result' = NoResult
    /\ UNCHANGED <<view, scenario, todo, callbacks, ui>>

\* line 256: emit countChanged()
ClearCountChanged ==
    /\ stack # <<>>
    /\ Top.op = "clear"
    /\ Top.pc = "endResetModel"
    /\ trace' = Append(trace, Event("countChanged", 0 - 1, 0 - 1))
    /\ stack' = SetPc("countChanged")
    /\ UNCHANGED <<m_contacts, written>>
    /\ result' = NoResult
    /\ view' = [view EXCEPT !.count = rowCount(FALSE)]
    /\ UNCHANGED <<scenario, todo, callbacks, ui>>

----------------------------------------------------------------------------
(* The end of a call: the closing brace, or an early return *)

\* Bug: a call that returns early never returns
Return_OnlyAfterCountChanged ==
    /\ stack # <<>>
    /\ Top.pc = "countChanged"
    /\ stack' = SubSeq(stack, 1, Len(stack) - 1)
    /\ trace' = IF Len(stack) = 1 THEN <<>> ELSE trace
    /\ UNCHANGED <<m_contacts, written>>
    /\ result' = NoResult
    /\ UNCHANGED <<view, scenario, todo, callbacks, ui>>

Return ==
    /\ stack # <<>>
    /\ Top.pc \in {"countChanged", "return"}
    /\ stack' = SubSeq(stack, 1, Len(stack) - 1)
    /\ trace' = IF Len(stack) = 1 THEN <<>> ELSE trace
    /\ UNCHANGED <<m_contacts, written>>
    /\ result' = NoResult
    /\ UNCHANGED <<view, scenario, todo, callbacks, ui>>

----------------------------------------------------------------------------
(* Queries of an observer: during a delivery, or between calls *)

\* Bug: rowCount() emits countChanged
QueryRowCount_Emits(parentValid) ==
    /\ Idle \/ Delivering
    /\ result' = [op |-> "rowCount", row |-> 0, role |-> 0,
                  value |-> [count |-> rowCount(parentValid)]]
    /\ trace' = Append(trace, Event("countChanged", 0 - 1, 0 - 1))
    /\ UNCHANGED <<m_contacts, stack, written, view, scenario, todo, callbacks, ui>>

QueryRowCount(parentValid) ==
    /\ Idle \/ Delivering
    /\ result' = [op |-> "rowCount", row |-> 0, role |-> 0,
                  value |-> [count |-> rowCount(parentValid)]]
    /\ UNCHANGED <<m_contacts, stack, trace, written, view, scenario, todo, callbacks, ui>>

QueryData(row, role) ==
    /\ Idle \/ Delivering
    /\ result' = [op |-> "data", row |-> row, role |-> role,
                  value |-> data(row, role)]
    /\ UNCHANGED <<m_contacts, stack, trace, written, view, scenario, todo, callbacks, ui>>

QueryRoleNames ==
    /\ Idle \/ Delivering
    /\ result' = [op |-> "roleNames", row |-> 0, role |-> 0, value |-> [names |-> roleNames]]
    /\ UNCHANGED <<m_contacts, stack, trace, written, view, scenario, todo, callbacks, ui>>

----------------------------------------------------------------------------

Next ==
    \/ \E c \in Contacts : AddContact(c)
    \/ AddContactAppend
    \/ AddContactEnd
    \/ AddContactCountChanged
    \/ \E index \in Rows : RemoveContact(index)
    \/ RemoveContactRemoveAt
    \/ RemoveContactEnd
    \/ RemoveContactCountChanged
    \/ Clear
    \/ ClearClear
    \/ ClearEnd
    \/ ClearCountChanged
    \/ Return
    \/ \E parentValid \in BOOLEAN : QueryRowCount(parentValid)
    \/ \E row \in Rows, role \in QueriedRoles : QueryData(row, role)
    \/ QueryRoleNames

Spec == Init /\ [][Next]_vars

\* The statements of an active call: each runs as soon as the one before it
\* is done, the handlers of a notification having returned
Step ==
    \/ AddContactAppend
    \/ AddContactEnd
    \/ AddContactCountChanged
    \/ RemoveContactRemoveAt
    \/ RemoveContactEnd
    \/ RemoveContactCountChanged
    \/ ClearClear
    \/ ClearEnd
    \/ ClearCountChanged
    \/ Return

\* The calls alone; the queries of the handlers change nothing
NextCalls ==
    \/ \E c \in Contacts : AddContact(c)
    \/ \E index \in Rows : RemoveContact(index)
    \/ Clear
    \/ Step

\* An active call runs on: the handlers of a notification return, and no
\* statement waits (every statement changes stack)
SpecLive == Init /\ [][NextCalls]_vars /\ WF_stack(Step)

----------------------------------------------------------------------------
(* A notification handler that calls back into the model: addContact,       *)
(* removeContact and clear are Q_INVOKABLE and check nothing about the calls *)
(* that are active, so a slot connected to rowsAboutToBeInserted,            *)
(* rowsInserted, ..., countChanged may call them during the delivery.        *)

CanCallBack ==
    Delivering /\ Len(stack) < MaxDepth /\ callbacks < MaxCallBacks

ReAddContact(c) ==
    /\ CanCallBack
    /\ Len(m_contacts) < MaxLen
    /\ AddContactBegin(c)
    /\ scenario' = 0 - 1
    /\ callbacks' = callbacks + 1
    /\ UNCHANGED ui

ReRemoveContact(index) ==
    /\ CanCallBack
    /\ RemoveContactBegin(index)
    /\ scenario' = 0 - 1
    /\ callbacks' = callbacks + 1
    /\ UNCHANGED ui

ReClear ==
    /\ CanCallBack
    /\ ClearBegin
    /\ scenario' = 0 - 1
    /\ callbacks' = callbacks + 1
    /\ UNCHANGED ui

\* line 211 when a handler of beginRemoveRows has shortened m_contacts:
\* m_contacts.removeAt(index) with index >= size() is undefined. A debug
\* build of Qt aborts in its assertion; a release build erases past the end,
\* leaving the size as it is or one smaller.
RemoveContactRemoveAtOutOfRange ==
    /\ stack # <<>>
    /\ Top.op = "removeContact"
    /\ Top.pc = "beginRemoveRows"
    /\ Top.index >= Len(m_contacts)
    /\ \/ /\ stack' = SetPc("aborted")
          /\ UNCHANGED m_contacts
       \/ /\ stack' = SetPc("removeAt")
          /\ \E n \in {Len(m_contacts) - 1, Len(m_contacts)} :
                /\ n >= 0
                /\ m_contacts' = SubSeq(m_contacts, 1, n)
    /\ UNCHANGED <<trace, written>>
    /\ result' = NoResult
    /\ UNCHANGED <<view, scenario, todo, callbacks, ui>>

\* The queries change nothing of the model (they set result alone), so the
\* states of the model reached with them and without them are the same;
\* they are left to Next.
NextReentrant ==
    \/ \E c \in Contacts : AddContact(c)
    \/ AddContactAppend
    \/ AddContactEnd
    \/ AddContactCountChanged
    \/ \E index \in Rows : RemoveContact(index)
    \/ RemoveContactRemoveAt
    \/ RemoveContactEnd
    \/ RemoveContactCountChanged
    \/ Clear
    \/ ClearClear
    \/ ClearEnd
    \/ ClearCountChanged
    \/ Return
    \/ \E c \in Contacts : ReAddContact(c)
    \/ \E index \in Rows : ReRemoveContact(index)
    \/ ReClear
    \/ RemoveContactRemoveAtOutOfRange

SpecReentrant == Init /\ [][NextReentrant]_vars

----------------------------------------------------------------------------
(* The QML window of ContactModel.h: its handlers call the model, each call *)
(* running to its return before the handler goes on                         *)

\* The white space String.prototype.trim() removes, as far as a TextField
\* takes it from the keyboard
WhiteSpace == {" ", "\t"}

RECURSIVE trimStart(_)
trimStart(s) ==
    IF Len(s) > 0 /\ SubSeq(s, 1, 1) \in WhiteSpace
    THEN trimStart(SubSeq(s, 2, Len(s)))
    ELSE s

RECURSIVE trimEnd(_)
trimEnd(s) ==
    IF Len(s) > 0 /\ SubSeq(s, Len(s), Len(s)) \in WhiteSpace
    THEN trimEnd(SubSeq(s, 1, Len(s) - 1))
    ELSE s

trim(s) == trimEnd(trimStart(s))

\* What the user types into nameField, phoneField and emailField
Entries ==
    { <<"", "", "">>,
      <<"", "555-0000", "">>,
      <<"  ", "555-0000", "">>,
      <<"\t ", "", "tab@example.com">>,
      <<"Ann", "555-0000", "ann@example.com">>,
      <<" Bob ", "", "">> }

\* lines 399-401: Component.onCompleted
CompletedCalls ==
    << Call("addContact",
            [name |-> "Alice Johnson", phone |-> "555-1234",
             email |-> "alice@example.com"], 0 - 1),
       Call("addContact",
            [name |-> "Bob Smith", phone |-> "555-5678",
             email |-> "bob@example.com"], 0 - 1),
       Call("addContact",
            [name |-> "Charlie Brown", phone |-> "555-9012",
             email |-> "charlie@example.com"], 0 - 1) >>

\* lines 877-879: Add Sample Data
SampleDataCalls ==
    << Call("addContact",
            [name |-> "David Miller", phone |-> "555-1111",
             email |-> "david@example.com"], 0 - 1),
       Call("addContact",
            [name |-> "Emma Wilson", phone |-> "555-2222",
             email |-> "emma@example.com"], 0 - 1),
       Call("addContact",
            [name |-> "Frank Lee", phone |-> "555-3333",
             email |-> "frank@example.com"], 0 - 1) >>

\* The window is created: Component.onCompleted is about to run
InitWindow ==
    /\ m_contacts = <<>>
    /\ stack = <<>>
    /\ trace = <<>>
    /\ result = NoResult
    /\ written = <<>>
    /\ view = [mirror |-> <<>>, count |-> 0]
    /\ scenario = 0 - 1
    /\ todo = [m_tasks |-> <<>>, result |-> NoResult]
    /\ callbacks = 0
    /\ ui = [handler |-> "onCompleted", pc |-> "calls",
             pending |-> CompletedCalls,
             nameField |-> "", phoneField |-> "", emailField |-> ""]

\* The user types into the three fields
EditFields(entry) ==
    /\ ui.pc = "idle"
    /\ ui' = [ui EXCEPT !.nameField = entry[1], !.phoneField = entry[2],
                        !.emailField = entry[3]]
    /\ UNCHANGED <<m_contacts, stack, trace, result, written, view, scenario,
                   todo, callbacks>>

\* A click on Add Contact: onClicked starts
ClickAddContact ==
    /\ ui.pc = "idle"
    /\ Len(m_contacts) < MaxLen
    /\ ui' = [ui EXCEPT !.handler = "Add Contact", !.pc = "if"]
    /\ UNCHANGED <<m_contacts, stack, trace, result, written, view, scenario,
                   todo, callbacks>>

\* Bug: the name is tested as typed
onClickedAddContact_NoTrim ==
    /\ ui.pc = "if"
    /\ IF ui.nameField # ""
       THEN ui' = [ui EXCEPT !.pc = "calls",
                      !.pending = << Call("addContact",
                                          [name |-> ui.nameField,
                                           phone |-> ui.phoneField,
                                           email |-> ui.emailField], 0 - 1) >>]
       ELSE ui' = [ui EXCEPT !.handler = "", !.pc = "idle"]
    /\ UNCHANGED <<m_contacts, stack, trace, result, written, view, scenario,
                   todo, callbacks>>

\* lines 521-535: if (nameField.text.trim() !== "") contactModel.addContact(
\* nameField.text, phoneField.text, emailField.text)
onClickedAddContact ==
    /\ ui.pc = "if"
    /\ IF trim(ui.nameField) # ""
       THEN ui' = [ui EXCEPT !.pc = "calls",
                      !.pending = << Call("addContact",
                                          [name |-> ui.nameField,
                                           phone |-> ui.phoneField,
                                           email |-> ui.emailField], 0 - 1) >>]
       ELSE ui' = [ui EXCEPT !.handler = "", !.pc = "idle"]
    /\ UNCHANGED <<m_contacts, stack, trace, result, written, view, scenario,
                   todo, callbacks>>

\* line 748: the delete button of the delegate of row index
ClickDelete(index) ==
    /\ ui.pc = "idle"
    /\ index >= 0
    /\ index < Len(view.mirror)
    /\ ui' = [ui EXCEPT !.handler = "delete", !.pc = "calls",
                        !.pending = <<Call("removeContact", NoContact, index)>>]
    /\ UNCHANGED <<m_contacts, stack, trace, result, written, view, scenario,
                   todo, callbacks>>

\* line 857: Clear All
ClickClearAll ==
    /\ ui.pc = "idle"
    /\ ui' = [ui EXCEPT !.handler = "Clear All", !.pc = "calls",
                        !.pending = <<Call("clear", NoContact, 0 - 1)>>]
    /\ UNCHANGED <<m_contacts, stack, trace, result, written, view, scenario,
                   todo, callbacks>>

\* lines 873-879: Add Sample Data
ClickAddSampleData ==
    /\ ui.pc = "idle"
    /\ Len(m_contacts) + Len(SampleDataCalls) <= MaxLen
    /\ ui' = [ui EXCEPT !.handler = "Add Sample Data", !.pc = "calls",
                        !.pending = SampleDataCalls]
    /\ UNCHANGED <<m_contacts, stack, trace, result, written, view, scenario,
                   todo, callbacks>>

\* The running handler makes its next call of the model
HandlerCall ==
    /\ ui.pc = "calls"
    /\ Idle
    /\ ui.pending # <<>>
    /\ LET call == Head(ui.pending)
       IN  \/ call.op = "addContact" /\ AddContactBegin(call.contact)
           \/ call.op = "removeContact" /\ RemoveContactBegin(call.index)
           \/ call.op = "clear" /\ ClearBegin
    /\ ui' = [ui EXCEPT !.pending = Tail(@)]
    /\ UNCHANGED <<scenario, callbacks>>

\* The running handler has made its calls; lines 538-540: Add Contact then
\* empties the three fields
HandlerReturn ==
    /\ ui.pc = "calls"
    /\ Idle
    /\ ui.pending = <<>>
    /\ ui' = IF ui.handler = "Add Contact"
             THEN [ui EXCEPT !.handler = "", !.pc = "idle", !.nameField = "",
                             !.phoneField = "", !.emailField = ""]
             ELSE [ui EXCEPT !.handler = "", !.pc = "idle"]
    /\ UNCHANGED <<m_contacts, stack, trace, result, written, view, scenario,
                   todo, callbacks>>

NextWindow ==
    \/ \E entry \in Entries : EditFields(entry)
    \/ ClickAddContact
    \/ onClickedAddContact
    \/ \E index \in Rows : ClickDelete(index)
    \/ ClickClearAll
    \/ ClickAddSampleData
    \/ HandlerCall
    \/ HandlerReturn
    \/ Step

SpecWindow == InitWindow /\ [][NextWindow]_vars

----------------------------------------------------------------------------
(* A ToDoModel holding some tasks, queried by its view *)

InitToDo ==
    /\ m_contacts = <<>>
    /\ stack = <<>>
    /\ trace = <<>>
    /\ result = NoResult
    /\ written = <<>>
    /\ view = [mirror |-> <<>>, count |-> 0]
    /\ scenario = 0 - 1
    /\ todo \in {[m_tasks |-> t, result |-> NoResult] : t \in TaskLists}
    /\ callbacks = 0
    /\ ui = NoWindow

ToDoQueryRowCount ==
    /\ todo' = [todo EXCEPT !.result = [op |-> "rowCount", row |-> 0, role |-> 0,
                                        value |-> [count |-> ToDoModel_rowCount]]]
    /\ UNCHANGED <<m_contacts, stack, trace, result, written, view, scenario, callbacks, ui>>

ToDoQueryData(row, role) ==
    /\ todo' = [todo EXCEPT !.result = [op |-> "data", row |-> row, role |-> role,
                                        value |-> ToDoModel_data(row, role)]]
    /\ UNCHANGED <<m_contacts, stack, trace, result, written, view, scenario, callbacks, ui>>

ToDoQueryRoleNames ==
    /\ todo' = [todo EXCEPT !.result = [op |-> "roleNames", row |-> 0, role |-> 0,
                                        value |-> [names |-> ToDoModel_roleNames]]]
    /\ UNCHANGED <<m_contacts, stack, trace, result, written, view, scenario, callbacks, ui>>

NextToDo ==
    \/ ToDoQueryRowCount
    \/ \E row \in ToDoRows, role \in ToDoQueriedRoles : ToDoQueryData(row, role)
    \/ ToDoQueryRoleNames

SpecToDo == InitToDo /\ [][NextToDo]_vars

----------------------------------------------------------------------------
(* What the claims speak of *)

BeginEvents == {"beginInsertRows", "beginRemoveRows", "beginResetModel"}
EndEvents == {"endInsertRows", "endRemoveRows", "endResetModel"}

Note(ev, first, last, seq) ==
    [ev |-> ev, first |-> first, last |-> last, seq |-> seq]

\* The outermost active call
Outer == stack[1]

\* The content a call is to leave behind, from the content it found
Expected(f) ==
    CASE f.op = "addContact" -> f.pre \o <<f.contact>>
      [] f.op = "removeContact" ->
            IF f.index >= 0 /\ f.index < Len(f.pre)
            THEN DropRow(f.pre, f.index)
            ELSE f.pre
      [] f.op = "clear" -> <<>>

\* The number of begin notifications of the trace not yet followed by their end
OpenPairs ==
    Cardinality({k \in 1 .. Len(trace) : trace[k].ev \in BeginEvents})
    - Cardinality({k \in 1 .. Len(trace) : trace[k].ev \in EndEvents})

\* The trace so far of a call that has reached pc, given its complete trace:
\* the begin notification, then the end notification, then countChanged
TraceAt(pc, full) ==
    CASE pc \in BeginEvents -> SubSeq(full, 1, 1)
      [] pc \in {"append", "removeAt", "clear"} -> SubSeq(full, 1, 1)
      [] pc \in EndEvents -> SubSeq(full, 1, 2)
      [] pc = "countChanged" -> full
      [] OTHER -> <<>>

\* The content at pc of a call that found pre and is to leave post
ContentAt(pc, pre, post) ==
    IF pc \in BeginEvents \/ pc = "return" THEN pre ELSE post

----------------------------------------------------------------------------
\* C1: every begin notification is delivered with m_contacts holding the
\* content the call found, every end notification with m_contacts holding the
\* complete content the call is to leave, and m_contacts changes only in a
\* step taken while exactly one begin notification awaits its end.
C1_Delivered ==
    stack # <<>> =>
        \A k \in 1 .. Len(trace) :
            /\ trace[k].ev \in BeginEvents => trace[k].seq = Outer.pre
            /\ trace[k].ev \in EndEvents => trace[k].seq = Expected(Outer)

C1_ChangeInsidePair ==
    m_contacts' # m_contacts => OpenPairs = 1 /\ trace' = trace

C1_BeginBeforeEndAfter == []C1_Delivered /\ [][C1_ChangeInsidePair]_vars

\* C1 witness: the end-remove of a removal from the middle has been delivered
C1_Witness ==
    /\ stack # <<>>
    /\ Outer.op = "removeContact"
    /\ Len(Outer.pre) = 3
    /\ Outer.index = 1
    /\ \E k \in 1 .. Len(trace) :
          trace[k].ev = "endRemoveRows" /\ trace[k].seq # Outer.pre

----------------------------------------------------------------------------
\* C2: one addContact on N records delivers begin-insert(N, N) with the N
\* records, then appends the record, then delivers end-insert and then
\* countChanged with the N+1 records, and nothing else, at every point of
\* the call.
C2_AppendTrace ==
    (stack # <<>> /\ Outer.op = "addContact") =>
        LET N == Len(Outer.pre)
            post == Outer.pre \o <<Outer.contact>>
            full == << Note("beginInsertRows", N, N, Outer.pre),
                       Note("endInsertRows", N, N, post),
                       Note("countChanged", 0 - 1, 0 - 1, post) >>
        IN  /\ Outer.pc \in {"beginInsertRows", "append", "endInsertRows",
                             "countChanged"}
            /\ trace = TraceAt(Outer.pc, full)
            /\ m_contacts = ContentAt(Outer.pc, Outer.pre, post)

\* C2 witness: an addContact on two records has delivered countChanged
C2_Witness ==
    /\ stack # <<>>
    /\ Outer.op = "addContact"
    /\ Outer.pc = "countChanged"
    /\ Len(Outer.pre) = 2
    /\ Len(trace) = 3

----------------------------------------------------------------------------
\* C3: removeContact(i) with 0 <= i < length delivers begin-remove(i, i)
\* with the record still stored, then removes the record at i, then delivers
\* end-remove(i, i) and then countChanged, and nothing else.
C3_RemoveTrace ==
    (/\ stack # <<>>
     /\ Outer.op = "removeContact"
     /\ Outer.index >= 0
     /\ Outer.index < Len(Outer.pre)) =>
        LET i == Outer.index
            post == DropRow(Outer.pre, i)
            full == << Note("beginRemoveRows", i, i, Outer.pre),
                       Note("endRemoveRows", i, i, post),
                       Note("countChanged", 0 - 1, 0 - 1, post) >>
        IN  /\ Outer.pc \in {"beginRemoveRows", "removeAt", "endRemoveRows",
                             "countChanged"}
            /\ trace = TraceAt(Outer.pc, full)
            /\ m_contacts = ContentAt(Outer.pc, Outer.pre, post)

\* C3 witness: a removal of the first of three records has delivered
\* countChanged
C3_Witness ==
    /\ stack # <<>>
    /\ Outer.op = "removeContact"
    /\ Outer.pc = "countChanged"
    /\ Outer.index = 0
    /\ Len(Outer.pre) = 3
    /\ Len(trace) = 3

----------------------------------------------------------------------------
\* C4: clear() on n >= 1 records delivers one begin-reset, empties
\* m_contacts, delivers one end-reset and then one countChanged; it delivers
\* no row-remove notification and leaves rowCount() 0.
C4_ClearTrace ==
    (stack # <<>> /\ Outer.op = "clear" /\ Outer.pre # <<>>) =>
        LET full == << Note("beginResetModel", 0 - 1, 0 - 1, Outer.pre),
                       Note("endResetModel", 0 - 1, 0 - 1, <<>>),
                       Note("countChanged", 0 - 1, 0 - 1, <<>>) >>
        IN  /\ Outer.pc \in {"beginResetModel", "clear", "endResetModel",
                             "countChanged"}
            /\ trace = TraceAt(Outer.pc, full)
            /\ m_contacts = ContentAt(Outer.pc, Outer.pre, <<>>)
            /\ Outer.pc = "countChanged" => rowCount(FALSE) = 0
            /\ \A k \in 1 .. Len(trace) :
                  trace[k].ev \notin {"beginRemoveRows", "endRemoveRows"}

\* C4 witness: a clear of three records has delivered countChanged
C4_Witness ==
    /\ stack # <<>>
    /\ Outer.op = "clear"
    /\ Outer.pc = "countChanged"
    /\ Len(Outer.pre) = 3
    /\ m_contacts = <<>>

----------------------------------------------------------------------------
DeclaredRoles == {NameRole, PhoneRole, EmailRole}

\* The field of a record a declared role names
FieldOf(rec, role) ==
    CASE role = NameRole  -> rec.name
      [] role = PhoneRole -> rec.phone
      [] role = EmailRole -> rec.email

\* C5: addContact(r) never takes an early return, and once its end-insert is
\* delivered rowCount() is one more than before, data(rowCount() - 1, f) is
\* r's value of f for name, phone and email, and every earlier position holds
\* the record it held before.
C5_AppendResult ==
    (stack # <<>> /\ Outer.op = "addContact") =>
        /\ Outer.pc # "return"
        /\ Outer.pc \in {"endInsertRows", "countChanged"} =>
              /\ rowCount(FALSE) = Len(Outer.pre) + 1
              /\ \A role \in DeclaredRoles :
                    data(rowCount(FALSE) - 1, role)
                        = QVariantOf(FieldOf(Outer.contact, role))
              /\ \A p \in 0 .. (Len(Outer.pre) - 1) :
                    /\ m_contacts[p + 1] = Outer.pre[p + 1]
                    /\ \A role \in DeclaredRoles :
                          data(p, role) = QVariantOf(FieldOf(Outer.pre[p + 1], role))

\* C5 witness: a record with empty fields, equal to one already stored, has
\* been appended
C5_Witness ==
    /\ stack # <<>>
    /\ Outer.op = "addContact"
    /\ Outer.pc = "countChanged"
    /\ Outer.contact = [name |-> "", phone |-> "", email |-> ""]
    /\ \E p \in 1 .. Len(Outer.pre) : Outer.pre[p] = Outer.contact
    /\ Len(m_contacts) = Len(Outer.pre) + 1

----------------------------------------------------------------------------
\* C6: once removeContact(i), 0 <= i < n, has removed, rowCount() is n - 1,
\* the positions below i hold the records they held, and every position
\* j - 1 with j > i holds the record position j held.
C6_RemoveResult ==
    (/\ stack # <<>>
     /\ Outer.op = "removeContact"
     /\ Outer.index >= 0
     /\ Outer.index < Len(Outer.pre)
     /\ Outer.pc \in {"removeAt", "endRemoveRows", "countChanged"}) =>
        LET i == Outer.index
            n == Len(Outer.pre)
        IN  /\ rowCount(FALSE) = n - 1
            /\ \A p \in 0 .. (i - 1) : m_contacts[p + 1] = Outer.pre[p + 1]
            /\ \A j \in (i + 1) .. (n - 1) : m_contacts[j] = Outer.pre[j + 1]

\* C6 witness: the middle one of three different records has been removed
C6_Witness ==
    /\ stack # <<>>
    /\ Outer.op = "removeContact"
    /\ Outer.pc = "countChanged"
    /\ Outer.index = 1
    /\ Len(Outer.pre) = 3
    /\ Outer.pre[1] # Outer.pre[2]
    /\ Outer.pre[2] # Outer.pre[3]
    /\ m_contacts = <<Outer.pre[1], Outer.pre[3]>>

----------------------------------------------------------------------------
\* C7: removeContact(i) with i < 0 or i >= length returns at once: m_contacts
\* is what it was and no notification is delivered.
C7_RemoveOutOfRange ==
    (/\ stack # <<>>
     /\ Outer.op = "removeContact"
     /\ (Outer.index < 0 \/ Outer.index >= Len(Outer.pre))) =>
        /\ Outer.pc = "return"
        /\ trace = <<>>
        /\ m_contacts = Outer.pre
        /\ rowCount(FALSE) = Len(Outer.pre)

\* C7 witness: removeContact(length) on two records has returned
C7_Witness ==
    /\ stack # <<>>
    /\ Outer.op = "removeContact"
    /\ Outer.pc = "return"
    /\ Len(Outer.pre) = 2
    /\ Outer.index = 2

----------------------------------------------------------------------------
\* C8: in every state data(row, role) is the invalid QVariant for every row
\* below 0 or at or above rowCount() and for every role, and so is what a
\* serviced query of such a row returned.
C8_OutOfRangeNoValue ==
    /\ \A row \in Rows, role \in QueriedRoles :
          (row < 0 \/ row >= rowCount(FALSE)) => data(row, role) = QVariantInvalid
    /\ (/\ result.op = "data"
        /\ (result.row < 0 \/ result.row >= rowCount(FALSE))) =>
          result.value = QVariantInvalid

\* C8 witness: a query of row == rowCount() on a non-empty model was serviced
C8_Witness ==
    /\ result.op = "data"
    /\ m_contacts # <<>>
    /\ result.row = Len(m_contacts)
    /\ result.role = NameRole

----------------------------------------------------------------------------
\* C9: at a valid row, data with a role that is none of NameRole, PhoneRole,
\* EmailRole is the invalid QVariant.
C9_UnknownRoleNoValue ==
    /\ \A row \in 0 .. (rowCount(FALSE) - 1), role \in QueriedRoles \ DeclaredRoles :
          data(row, role) = QVariantInvalid
    /\ (/\ result.op = "data"
        /\ result.row >= 0
        /\ result.row < rowCount(FALSE)
        /\ result.role \notin DeclaredRoles) =>
          result.value = QVariantInvalid

\* C9 witness: a query of a stored row with role Qt::UserRole was serviced
C9_Witness ==
    /\ result.op = "data"
    /\ result.row >= 0
    /\ result.row < Len(m_contacts)
    /\ result.role = UserRole

----------------------------------------------------------------------------
\* C10: wherever a query can be serviced, the model has as many rows as were
\* appended and not since removed, data(p, f) is the value of f handed to
\* addContact for the record now at p, and a serviced query returned it.
C10_ValueAsWritten ==
    (Idle \/ Delivering) =>
        /\ rowCount(FALSE) = Len(written)
        /\ \A p \in 0 .. (rowCount(FALSE) - 1), role \in DeclaredRoles :
              data(p, role) = QVariantOf(FieldOf(written[p + 1], role))
        /\ (/\ result.op = "data"
            /\ result.row >= 0
            /\ result.row < rowCount(FALSE)
            /\ result.role \in DeclaredRoles) =>
              result.value = QVariantOf(FieldOf(written[result.row + 1], result.role))

\* C10 witness: after the first of two different records was removed, a query
\* of row 0 returned the email of the record that was at row 1
C10_Witness ==
    /\ stack # <<>>
    /\ Outer.op = "removeContact"
    /\ Outer.pc = "endRemoveRows"
    /\ Outer.index = 0
    /\ Len(Outer.pre) = 2
    /\ Outer.pre[1].email # Outer.pre[2].email
    /\ result.op = "data"
    /\ result.row = 0
    /\ result.role = EmailRole
    /\ result.value = QVariantOf(Outer.pre[2].email)

----------------------------------------------------------------------------
\* C11: a step that services rowCount(), data() or roleNames(), whatever its
\* arguments, leaves m_contacts and the active calls as they are and
\* delivers no notification.
C11_QueryStep == result'.op # "none"

C11_QueriesChangeNothing ==
    [][C11_QueryStep =>
          /\ m_contacts' = m_contacts
          /\ trace' = trace
          /\ stack' = stack]_vars

\* C11 witness: data() was serviced for the invalid index during a delivery
C11_Witness ==
    /\ Delivering
    /\ m_contacts # <<>>
    /\ result.op = "data"
    /\ result.row = 0 - 1

----------------------------------------------------------------------------
\* C12: clear() on an empty m_contacts returns at once, with nothing
\* delivered and nothing changed; and as every clear() leaves m_contacts
\* empty, a clear() right after a clear() is such a call.
C12_ClearOnEmpty ==
    (stack # <<>> /\ Outer.op = "clear") =>
        /\ Outer.pre = <<>> =>
              /\ Outer.pc = "return"
              /\ trace = <<>>
              /\ m_contacts = <<>>
        /\ Outer.pc \in {"countChanged", "return"} => m_contacts = <<>>

\* C12 witness: clear() on an empty model has returned early
C12_Witness ==
    /\ stack # <<>>
    /\ Outer.op = "clear"
    /\ Outer.pre = <<>>
    /\ Outer.pc = "return"

----------------------------------------------------------------------------
\* C13: from the constructed model, after addContact(Alice..) and
\* addContact(Bob..) rowCount() is 2, data(0, name) is Alice and
\* data(1, phone) is 555-5678; after then removeContact(0) rowCount() is 1
\* and data(0, name) is Bob; after then clear() rowCount() is 0 and
\* data(0, name) is the invalid QVariant.
C13_Scenario ==
    Idle =>
        /\ scenario = 2 =>
              /\ rowCount(FALSE) = 2
              /\ data(0, NameRole) = QVariantOf("Alice")
              /\ data(1, PhoneRole) = QVariantOf("555-5678")
        /\ scenario = 3 =>
              /\ rowCount(FALSE) = 1
              /\ data(0, NameRole) = QVariantOf("Bob")
        /\ scenario = 4 =>
              /\ rowCount(FALSE) = 0
              /\ data(0, NameRole) = QVariantInvalid

\* C13 witness: the four calls of the scenario have been made and returned
C13_Witness == Idle /\ scenario = 4

----------------------------------------------------------------------------
\* C14: no mutation begins between a begin notification and its end: a call
\* of addContact, removeContact or clear made by a handler of a begin
\* notification returns at once, with m_contacts as it found it, and never
\* are two begin notifications awaiting their end.
C14_NoMutationWhileMutating ==
    /\ OpenPairs <= 1
    /\ \A k \in 2 .. Len(stack) :
          stack[k - 1].pc \in BeginEvents =>
              /\ stack[k].pc = "return"
              /\ m_contacts = stack[k].pre

----------------------------------------------------------------------------
\* C16: data() of a row outside [0, rowCount()) is the invalid QVariant, and
\* every step that executes m_contacts.removeAt(index) finds
\* 0 <= index < m_contacts.size(), also in a call made by, or interrupted
\* by, a notification handler.
C16_RemoveAtStep ==
    /\ stack # <<>>
    /\ Top.op = "removeContact"
    /\ Top.pc = "beginRemoveRows"
    /\ Len(stack') = Len(stack)
    /\ stack'[Len(stack)].pc \in {"removeAt", "aborted"}

C16_DataInBounds ==
    \A row \in Rows, role \in QueriedRoles :
        (row < 0 \/ row >= Len(m_contacts)) => data(row, role) = QVariantInvalid

C16_AccessInBounds ==
    /\ []C16_DataInBounds
    /\ [][C16_RemoveAtStep =>
             (Top.index >= 0 /\ Top.index < Len(m_contacts))]_vars

----------------------------------------------------------------------------
\* C15: during addContact on m_contacts of size N, a serviced rowCount() is N
\* until endInsertRows is delivered and N + 1 from then on, and no query is
\* serviced in a state where the new contact is in m_contacts and
\* endInsertRows has not been delivered.
EndInsertSent == \E k \in 1 .. Len(trace) : trace[k].ev = "endInsertRows"

C15_LengthDuringAppend ==
    (stack # <<>> /\ Top.op = "addContact") =>
        LET N == Len(Top.pre)
            reported == IF EndInsertSent THEN N + 1 ELSE N
        IN  /\ (Top.pc = "beginInsertRows") => rowCount(FALSE) = N
            /\ (Top.pc \in {"endInsertRows", "countChanged"}) =>
                   rowCount(FALSE) = N + 1
            /\ (result.op = "rowCount") =>
                   result.value.count \in {reported, rowCount(TRUE)}
            /\ (result.op # "none") => (m_contacts # Top.pre => EndInsertSent)

\* C15 witness: rowCount() serviced during endInsertRows of an addContact on
\* a non-empty model answers N + 1
C15_Witness ==
    /\ stack # <<>>
    /\ Top.op = "addContact"
    /\ Top.pc = "endInsertRows"
    /\ Top.pre # <<>>
    /\ result.op = "rowCount"
    /\ result.value.count = Len(Top.pre) + 1

----------------------------------------------------------------------------
\* C17: roleNames() is the same table in every reachable state, whatever
\* calls of addContact, removeContact and clear came before: for ContactModel
\* NameRole -> name, PhoneRole -> phone, EmailRole -> email and nothing else,
\* for ToDoModel DoneRole -> done, DescriptionRole -> description and
\* nothing else.
C17_IsContactTable(t) ==
    /\ DOMAIN t = {NameRole, PhoneRole, EmailRole}
    /\ t[NameRole] = "name"
    /\ t[PhoneRole] = "phone"
    /\ t[EmailRole] = "email"

C17_IsToDoTable(t) ==
    /\ DOMAIN t = {DoneRole, DescriptionRole}
    /\ t[DoneRole] = "done"
    /\ t[DescriptionRole] = "description"

C17_RoleNamesFixed ==
    /\ C17_IsContactTable(roleNames)
    /\ (result.op = "roleNames") => C17_IsContactTable(result.value.names)
    /\ C17_IsToDoTable(ToDoModel_roleNames)

\* C17 witness: roleNames() serviced during the endResetModel of a clear()
\* that removed two contacts
C17_Witness ==
    /\ stack # <<>>
    /\ Top.op = "clear"
    /\ Top.pc = "endResetModel"
    /\ Len(Top.pre) >= 2
    /\ result.op = "roleNames"

----------------------------------------------------------------------------
----------------------------------------------------------------------------
\* C19: every call of addContact, removeContact or clear completes: once its
\* begin notification is delivered, its end notification and countChanged
\* follow; every active call returns, leaving no call active; and each step
\* of a call moves it to a later statement, so a call takes at most five
\* steps of its own.
C19_Rank(pc) ==
    CASE pc \in BeginEvents -> 1
      [] pc \in {"append", "removeAt", "clear"} -> 2
      [] pc \in EndEvents -> 3
      [] pc = "countChanged" -> 4
      [] pc = "return" -> 4
      [] OTHER -> 0

C19_Announced ==
    /\ stack # <<>>
    /\ Top.pc = "countChanged"
    /\ \E k \in 1 .. Len(trace) : trace[k].ev \in EndEvents
    /\ trace[Len(trace)].ev = "countChanged"
    /\ Len(m_contacts) # Len(Top.pre)

C19_Advances ==
    (stack # <<>> /\ stack' # <<>> /\ stack' # stack) =>
        /\ Len(stack') = Len(stack)
        /\ C19_Rank(stack'[Len(stack)].pc) > C19_Rank(Top.pc)

C19_Completes ==
    /\ (stack # <<>> /\ Top.pc \in BeginEvents) ~> C19_Announced
    /\ (stack # <<>>) ~> Idle
    /\ [][C19_Advances]_stack

\* C19 witness: a removeContact on three contacts has delivered countChanged
C19_Witness ==
    /\ C19_Announced
    /\ Top.op = "removeContact"
    /\ Len(Top.pre) = 3

----------------------------------------------------------------------------
\* C20: a view that builds its rows from the notifications alone (a row read
\* through data() put at N on endInsertRows(N, N), row i dropped on
\* endRemoveRows(i, i), every row read again on endResetModel) holds,
\* whenever no call is active, as many rows as m_contacts has contacts, row
\* p showing the name, phone and email of m_contacts at p.
C20_Shown(contact) ==
    [name |-> QVariantOf(contact.name), phone |-> QVariantOf(contact.phone),
     email |-> QVariantOf(contact.email)]

C20_MirrorEqualsSequence ==
    Idle =>
        /\ Len(view.mirror) = Len(m_contacts)
        /\ \A p \in 0 .. (Len(m_contacts) - 1) :
              view.mirror[p + 1] = C20_Shown(m_contacts[p + 1])

\* C20 witness: two contacts were added and the first removed, and the view
\* shows the one row left
C20_Witness ==
    /\ Idle
    /\ scenario = 3
    /\ Len(view.mirror) = 1
    /\ view.mirror[1].name = QVariantOf("Bob")

----------------------------------------------------------------------------
\* C21: the model is Stable (no begin notification awaits its end) or
\* Mutating (exactly one does): every begin notification is followed next by
\* the end notification of its kind, every end notification follows the
\* begin of its kind, a call is Mutating exactly from its begin notification
\* up to its end notification, and a call about to return (also one that
\* returned early: removeContact out of range, clear on empty) leaves the
\* model Stable.
C21_EndOf(begin) ==
    CASE begin = "beginInsertRows" -> "endInsertRows"
      [] begin = "beginRemoveRows" -> "endRemoveRows"
      [] begin = "beginResetModel" -> "endResetModel"

C21_Cycle ==
    /\ OpenPairs \in {0, 1}
    /\ \A k \in 1 .. Len(trace) :
          /\ (trace[k].ev \in BeginEvents /\ k < Len(trace)) =>
                 trace[k + 1].ev = C21_EndOf(trace[k].ev)
          /\ (trace[k].ev \in EndEvents) =>
                 /\ k > 1
                 /\ trace[k - 1].ev \in BeginEvents
                 /\ trace[k].ev = C21_EndOf(trace[k - 1].ev)
    /\ (stack # <<>>) =>
          (OpenPairs = 1 <=>
              Top.pc \in BeginEvents \cup {"append", "removeAt", "clear"})
    /\ (stack # <<>> /\ Top.pc \in {"countChanged", "return"}) => OpenPairs = 0
    /\ Idle => OpenPairs = 0

\* C21 witness: a clear() of three contacts is about to return, its pair closed
C21_Witness ==
    /\ stack # <<>>
    /\ Top.op = "clear"
    /\ Top.pc = "countChanged"
    /\ Len(Top.pre) = 3
    /\ Len(trace) = 3
    /\ OpenPairs = 0

----------------------------------------------------------------------------
\* C22: a call that changes the number of contacts emits countChanged once,
\* as its last notification and after its end notification; a call that
\* leaves the number unchanged emits none; and the count binding, read again
\* on every countChanged, equals rowCount() whenever no call is active.
C22_Emitted ==
    Cardinality({k \in 1 .. Len(trace) : trace[k].ev = "countChanged"})

C22_CountChanged ==
    /\ (stack # <<>> /\ Top.pc = "countChanged") =>
          /\ C22_Emitted = 1
          /\ Len(trace) >= 2
          /\ trace[Len(trace)].ev = "countChanged"
          /\ trace[Len(trace) - 1].ev \in EndEvents
          /\ Len(m_contacts) # Len(Top.pre)
          /\ view.count = rowCount(FALSE)
    /\ (stack # <<>> /\ Top.pc # "countChanged") => C22_Emitted = 0
    /\ (stack # <<>> /\ Top.pc = "return") =>
          /\ Len(m_contacts) = Len(Top.pre)
          /\ trace = <<>>
    /\ Idle => view.count = rowCount(FALSE)

\* C22 witness: a removeContact() has emitted countChanged and the count
\* binding shows the two contacts left
C22_Witness ==
    /\ stack # <<>>
    /\ Top.op = "removeContact"
    /\ Top.pc = "countChanged"
    /\ C22_Emitted = 1
    /\ view.count = 2

----------------------------------------------------------------------------
\* C23: NameRole is 256, PhoneRole 257 and EmailRole 258, and roleNames()
\* is the table 256 -> name, 257 -> phone, 258 -> email, as the comments of
\* roleNames() say (Qt::UserRole being 256).
C23_RoleIds ==
    /\ UserRole = 256
    /\ NameRole = 256
    /\ PhoneRole = 257
    /\ EmailRole = 258
    /\ DOMAIN roleNames = {256, 257, 258}
    /\ roleNames[256] = "name"
    /\ roleNames[257] = "phone"
    /\ roleNames[258] = "email"
    /\ (result.op = "roleNames") => DOMAIN result.value.names = {256, 257, 258}

----------------------------------------------------------------------------
\* C24: the roles roleNames() names are the roles of the enum and are the
\* roles for which data() of a stored row is a valid QVariant; no two roles
\* share a name.
C24_ValuedRoles(row) == {role \in QueriedRoles : data(row, role).valid}

C24_SchemaConsistent ==
    /\ DOMAIN roleNames = DeclaredRoles
    /\ \A a, b \in DOMAIN roleNames : roleNames[a] = roleNames[b] => a = b
    /\ \A row \in 0 .. (Len(m_contacts) - 1) :
          C24_ValuedRoles(row) = DOMAIN roleNames
    /\ (/\ result.op = "data"
        /\ result.row >= 0
        /\ result.row < Len(m_contacts)) =>
          (result.value.valid <=> result.role \in DOMAIN roleNames)

\* C24 witness: data() of the email of the third contact is serviced and
\* valid
C24_Witness ==
    /\ Len(m_contacts) = 3
    /\ result.op = "data"
    /\ result.row = 2
    /\ result.role = EmailRole
    /\ result.value.valid

----------------------------------------------------------------------------
\* C25: also when a notification handler calls addContact or removeContact
\* while a begin notification awaits its end, every endInsertRows(p, p) is
\* delivered with the contact of the call that announced p stored at row p,
\* and every removeAt(i) of a call removes the contact that was at row i
\* when its beginRemoveRows(i, i) was delivered.
C25_InsertTold ==
    (stack # <<>> /\ Top.op = "addContact" /\ Top.pc = "endInsertRows") =>
        /\ Top.newRow < Len(m_contacts)
        /\ m_contacts[Top.newRow + 1] = Top.contact

C25_RemoveTold ==
    C16_RemoveAtStep =>
        /\ Top.index < Len(m_contacts)
        /\ m_contacts[Top.index + 1] = Top.pre[Top.index + 1]
        /\ stack'[Len(stack)].pc = "removeAt"
        /\ m_contacts' = DropRow(m_contacts, Top.index)

C25_NotificationsTrue ==
    /\ []C25_InsertTold
    /\ [][C25_RemoveTold]_stack

----------------------------------------------------------------------------
\* C26: every step leaves m_contacts as it is, or, in addContact, adds one
\* contact after the stored ones, each of which keeps its row and its
\* fields, or, in removeContact(i), removes the contact at row i, the
\* contacts below i keeping their row and those above i moving down by
\* exactly one, fields unchanged, or, in clear, removes all; so the stored
\* contacts are always in the order they were added and no row number grows.
C26_Kept == m_contacts' = m_contacts

C26_Appended ==
    /\ stack # <<>>
    /\ Top.op = "addContact"
    /\ Len(m_contacts') = Len(m_contacts) + 1
    /\ \A p \in 1 .. Len(m_contacts) : m_contacts'[p] = m_contacts[p]

C26_Removed ==
    /\ stack # <<>>
    /\ Top.op = "removeContact"
    /\ Top.index >= 0
    /\ Top.index < Len(m_contacts)
    /\ Len(m_contacts') = Len(m_contacts) - 1
    /\ \A p \in 1 .. Len(m_contacts) :
          /\ (p - 1 < Top.index) => m_contacts'[p] = m_contacts[p]
          /\ (p - 1 > Top.index) => m_contacts'[p - 1] = m_contacts[p]

C26_Cleared ==
    /\ stack # <<>>
    /\ Top.op = "clear"
    /\ m_contacts' = <<>>

C26_OrderKept ==
    [][C26_Kept \/ C26_Appended \/ C26_Removed \/ C26_Cleared]_m_contacts

\* C26 witness: removeContact(0) on three contacts, the last two different,
\* has moved them down by one row
C26_Witness ==
    /\ stack # <<>>
    /\ Top.op = "removeContact"
    /\ Top.pc = "removeAt"
    /\ Top.index = 0
    /\ Len(Top.pre) = 3
    /\ Top.pre[2] # Top.pre[3]
    /\ m_contacts = <<Top.pre[2], Top.pre[3]>>

----------------------------------------------------------------------------
\* C27: in the window, Add Contact calls addContact only when the text of
\* nameField is not empty after trim(); a click with an empty or
\* white-space name changes nothing of the model and delivers no
\* notification; so whatever the user does (the seeding at start, Add
\* Contact, Add Sample Data, delete, Clear All), every contact of m_contacts
\* has a name that is not empty after trim().
C27_NamesNotBlank ==
    \A p \in 1 .. Len(m_contacts) : trim(m_contacts[p].name) # ""

C27_CallsOnlyNamed ==
    (stack # <<>> /\ ui.handler = "Add Contact") =>
        /\ Top.op = "addContact"
        /\ Top.contact.name = ui.nameField
        /\ trim(Top.contact.name) # ""

C27_BlankClickIgnored ==
    (ui.pc = "if" /\ trim(ui.nameField) = "") =>
        /\ ui'.pc = "idle"
        /\ ui'.pending = <<>>
        /\ UNCHANGED <<m_contacts, stack, trace, view>>
        /\ stack = <<>>
        /\ trace = <<>>

C27_AddContactValidated ==
    /\ [](C27_NamesNotBlank /\ C27_CallsOnlyNamed)
    /\ [][C27_BlankClickIgnored]_ui

\* C27 witness: Add Contact has stored the name typed with a blank before
\* and after it, and its handler has returned
C27_Witness ==
    /\ ui.pc = "idle"
    /\ Len(m_contacts) = 3
    /\ m_contacts[3].name = " Bob "
    /\ m_contacts[1].name = "Bob Smith"

============================================================================
